---------------------------- MODULE Spec2Model ----------------------------
(***************************************************************************)
(* update_phabricator_repositories.py: one reconciliation pass between the *)
(* repositories github and kiln know about and the repositories that       *)
(* phabricator tracks, with the callsign allocator the pass uses.          *)
(*                                                                         *)
(* A python string is a sequence of one-character strings, so that         *)
(* upper(), re.sub, re.split, startswith, slicing and sorted() are         *)
(* computed character by character.                                        *)
(***************************************************************************)
EXTENDS Integers, Sequences, FiniteSets, TLC

VARIABLES
    pc,                    \* position in main(): kiln, git, cert, query,
                           \* reconcile, add, delete, return, done, aborted
    options,               \* [dry_run] as parsed in __main__
    registry,              \* what phabctl.repository.query answers (a list)
    kiln_repos,            \* set of kiln clone-urls
    git_repos,             \* set of github clone-urls, '.git' stripped
    retry_i,               \* the loop variable i of _retry
    query_log,             \* outcome of every phabctl.repository.query call
    phabricator_repo_info, \* the list _retry returned
    url_to_callsign_map,   \* dict: clone-url -> callsign
    new_repos,             \* set of clone-urls to add
    deleted_repos,         \* set of clone-urls to report as deleted
    add_list,              \* sorted(new_repos), the list the add loop walks
    add_i,                 \* number of elements of add_list already visited
    delete_list,           \* sorted(deleted_repos)
    delete_i,              \* number of elements of delete_list visited
    num_failures,          \* the counter main() returns
    creates,               \* every phabctl.repository.create call, in order
    stdout,                \* the 'Adding new repository' / 'has been deleted' lines
    stderr,                \* the 'ERROR: Unable to add repository' lines
    exc,                   \* the exception that ended the pass, if any
    status,                \* the value handed to sys.exit
    a_pc,                  \* allocator harness: "call" or "returned"
    a_name,                \* allocator harness: repo_name
    a_existing,            \* allocator harness: existing_callsigns
    a_result,              \* allocator harness: what the call produced
    history                \* what the earlier passes of this run left

passVars == <<pc, options, registry, kiln_repos, git_repos, retry_i, query_log,
              phabricator_repo_info, url_to_callsign_map, new_repos,
              deleted_repos, add_list, add_i, delete_list, delete_i,
              num_failures, creates, stdout, stderr, exc, status>>
allocVars == <<a_pc, a_name, a_existing, a_result>>
vars == <<passVars, allocVars, history>>

---------------------------------------------------------------------------
(* Characters and strings *)

\* The characters of clone-urls and callsigns, in ASCII order: '-' to ':'
\* are 45..58, 'A' to 'Z' are 65..90, '_' is 95, 'a' to 'z' are 97..122.
LowChars ==
    <<"-", ".", "/", "0", "1", "2", "3", "4", "5", "6", "7", "8", "9", ":">>
UpperLetters ==
    <<"A", "B", "C", "D", "E", "F", "G", "H", "I", "J", "K", "L", "M",
      "N", "O", "P", "Q", "R", "S", "T", "U", "V", "W", "X", "Y", "Z">>
LowerLetters ==
    <<"a", "b", "c", "d", "e", "f", "g", "h", "i", "j", "k", "l", "m",
      "n", "o", "p", "q", "r", "s", "t", "u", "v", "w", "x", "y", "z">>

\* ord(c), and chr(n) for the upper-case letters.
OrdTable ==
    [c \in {LowChars[i] : i \in 1..Len(LowChars)} |->
        44 + CHOOSE i \in 1..Len(LowChars) : LowChars[i] = c]
    @@ [c \in {UpperLetters[i] : i \in 1..Len(UpperLetters)} |->
        64 + CHOOSE i \in 1..Len(UpperLetters) : UpperLetters[i] = c]
    @@ [c \in {"_"} |-> 95]
    @@ [c \in {LowerLetters[i] : i \in 1..Len(LowerLetters)} |->
        96 + CHOOSE i \in 1..Len(LowerLetters) : LowerLetters[i] = c]
Ord(c) == OrdTable[c]
Chr(n) == UpperLetters[n - 64]

IsDigit(c) == Ord(c) \in 48..57          \* [0-9]
IsUpperLetter(c) == Ord(c) \in 65..90    \* [A-Z]
IsLowerLetter(c) == Ord(c) \in 97..122   \* [a-z]

\* s.startswith(p), s.endswith(p), s[n:], s[:n]
StartsWith(s, p) == Len(p) <= Len(s) /\ SubSeq(s, 1, Len(p)) = p
EndsWith(s, p) ==
    Len(p) <= Len(s) /\ SubSeq(s, Len(s) - Len(p) + 1, Len(s)) = p
DropFirst(s, n) == SubSeq(s, n + 1, Len(s))
TakeFirst(s, n) == SubSeq(s, 1, IF n < Len(s) THEN n ELSE Len(s))

\* a < b on python byte strings: the first differing character decides,
\* and a proper prefix is smaller.
RECURSIVE StrLessFrom(_, _, _)
StrLessFrom(a, b, i) ==
    IF i > Len(b) THEN FALSE
    ELSE IF i > Len(a) THEN TRUE
    ELSE IF a[i] = b[i] THEN StrLessFrom(a, b, i + 1)
    ELSE Ord(a[i]) < Ord(b[i])
StrLess(a, b) == StrLessFrom(a, b, 1)

Range(f) == {f[x] : x \in DOMAIN f}

GIT_SUFFIX == <<".", "g", "i", "t">>
GROUP == <<"G", "R", "O", "U", "P">>
WEBSITE == <<"W", "E", "B", "S", "I", "T", "E">>

---------------------------------------------------------------------------
(* _create_new_phabricator_callsign *)

\* repo_name.upper()
Upper(s) ==
    [i \in 1..Len(s) |->
        IF IsLowerLetter(s[i]) THEN Chr(Ord(s[i]) - 32) ELSE s[i]]

\* re.sub(r'[0-9]', '', repo_name)
StripDigits(s) == SelectSeq(s, LAMBDA c : ~IsDigit(c))

\* re.split(r'[^A-Z]+', s): the words between the runs of non-letters; a
\* leading or trailing run leaves an empty word, and '' splits to [''].
RECURSIVE SplitFrom(_, _, _, _, _)
SplitFrom(s, i, words, cur, in_run) ==
    IF i > Len(s) THEN Append(words, cur)
    ELSE IF IsUpperLetter(s[i])
         THEN SplitFrom(s, i + 1, words, Append(cur, s[i]), FALSE)
         ELSE IF in_run
              THEN SplitFrom(s, i + 1, words, cur, TRUE)
              ELSE SplitFrom(s, i + 1, Append(words, cur), <<>>, TRUE)
Split(s) == SplitFrom(s, 1, <<>>, <<>>, FALSE)

\* list.remove(x) under "if x in list": drops the first occurrence only.
Remove(list, x) ==
    IF \E i \in 1..Len(list) : list[i] = x
    THEN LET k == CHOOSE i \in 1..Len(list) :
                     /\ list[i] = x
                     /\ \A j \in 1..(i - 1) : list[j] # x
         IN  SubSeq(list, 1, k - 1) \o SubSeq(list, k + 1, Len(list))
    ELSE list

\* name_parts as it stands when the candidate loop starts.
NameParts(repo_name) ==
    Remove(Remove(Split(StripDigits(Upper(repo_name))), GROUP), WEBSITE)

\* max(len(w) for w in name_parts), for a non-empty name_parts
MaxWordLen(name_parts) ==
    CHOOSE n \in {Len(name_parts[i]) : i \in 1..Len(name_parts)} :
        \A i \in 1..Len(name_parts) : Len(name_parts[i]) <= n

RECURSIVE Join(_)
Join(ws) == IF ws = <<>> THEN <<>> ELSE Head(ws) \o Join(Tail(ws))

\* ''.join(w[:prefix_len + 1] for w in name_parts)
\* (mutation: w[:prefix_len], one character short)
CandidateCallsignOffByOne(name_parts, prefix_len) ==
    Join([i \in 1..Len(name_parts) |-> TakeFirst(name_parts[i], prefix_len)])
CandidateCallsign(name_parts, prefix_len) ==
    Join([i \in 1..Len(name_parts) |->
             TakeFirst(name_parts[i], prefix_len + 1)])

Returned(callsign) == [exc |-> "none", callsign |-> callsign]
Raised(e) == [exc |-> e, callsign |-> <<>>]

\* for prefix_len in xrange(n): return the first candidate not in
\* existing_callsigns; raise NameError when the loop runs out.
\* (mutation: the first candidate is returned unchecked)
CallsignLoopNoCheck(name_parts, existing_callsigns, prefix_len, n) ==
    IF prefix_len >= n THEN Raised("NameError")
    ELSE Returned(CandidateCallsign(name_parts, prefix_len))
RECURSIVE CallsignLoop(_, _, _, _)
CallsignLoop(name_parts, existing_callsigns, prefix_len, n) ==
    IF prefix_len >= n THEN Raised("NameError")
    ELSE LET candidate_callsign == CandidateCallsign(name_parts, prefix_len)
         IN  IF candidate_callsign \notin existing_callsigns
             THEN Returned(candidate_callsign)
             ELSE CallsignLoop(name_parts, existing_callsigns,
                               prefix_len + 1, n)

\* max() of an empty sequence raises ValueError before the loop starts.
_create_new_phabricator_callsign(repo_name, existing_callsigns) ==
    LET name_parts == NameParts(repo_name)
    IN  IF name_parts = <<>> THEN Raised("ValueError")
        ELSE CallsignLoop(name_parts, existing_callsigns, 0,
                          MaxWordLen(name_parts))

---------------------------------------------------------------------------
(* The allocator on its own: every name built from at most MaxTokens      *)
(* tokens, against every set of existing callsigns drawn from a pool.     *)

MaxTokens == 3

Tokens ==
    { <<"g", "r", "o", "u", "p">>, <<"W", "e", "b", "s", "i", "t", "e">>,
      <<"-">>, <<"1">>, <<"a">>, <<"B">>, <<"f", "o">> }

RECURSIVE NamesOf(_)
NamesOf(n) ==
    IF n = 0 THEN {<<>>}
    ELSE LET shorter == NamesOf(n - 1)
         IN  shorter \cup {s \o t : s \in shorter, t \in Tokens}

CallsignPool == { <<"A">>, <<"A", "B">>, <<"B">>, <<"F">> }

AllocInit ==
    /\ a_pc = "call"
    /\ a_name \in NamesOf(MaxTokens)
    /\ a_existing \in SUBSET CallsignPool
    /\ a_result = Raised("none")

AllocCall ==
    /\ a_pc = "call"
    /\ a_result' = _create_new_phabricator_callsign(a_name, a_existing)
    /\ a_pc' = "returned"
    /\ UNCHANGED <<a_name, a_existing>>
    /\ UNCHANGED <<passVars, history>>

AllocNext == AllocCall

---------------------------------------------------------------------------
(* add_repository *)

GIT_PREFIX ==
    <<"h", "t", "t", "p", "s", ":", "/", "/", "g", "i", "t", "h", "u", "b",
      ".", "c", "o", "m", "/", "K", "h", "a", "n", "/">>
KILN_PREFIX ==
    <<"h", "t", "t", "p", "s", ":", "/", "/", "k", "h", "a", "n", "a", "c",
      "a", "d", "e", "m", "y", ".", "k", "i", "l", "n", "h", "g", ".", "c",
      "o", "m", "/", "C", "o", "d", "e", "/">>

\* prefix_map, and the for/else loop over it: the vcs type and name of a
\* clone-url, or NameError when no prefix matches.
prefix_map == {[prefix |-> GIT_PREFIX, vcs_type |-> "git"],
               [prefix |-> KILN_PREFIX, vcs_type |-> "hg"]}

StripGit(s) == IF EndsWith(s, GIT_SUFFIX)
               THEN SubSeq(s, 1, Len(s) - Len(GIT_SUFFIX)) ELSE s

RepoRecord(repo_clone_url) ==
    IF \E e \in prefix_map : StartsWith(repo_clone_url, e.prefix)
    THEN LET e == CHOOSE e \in prefix_map :
                      StartsWith(repo_clone_url, e.prefix)
         IN  [exc |-> "none", vcs_type |-> e.vcs_type,
              name |-> StripGit(DropFirst(repo_clone_url, Len(e.prefix)))]
    ELSE [exc |-> "NameError", vcs_type |-> "none", name |-> <<>>]

\* set(url_to_callsign_map.values())
\* (mutation: the callsigns in use are not passed on)
ExistingCallsignsNone(m) == {}
ExistingCallsigns(m) == Range(m)

\* Whether add_repository reaches phabctl.repository.create.
\* (mutation: --dry_run is ignored)
CallsCreateAlways(dry_run) == TRUE
CallsCreate(dry_run) == ~dry_run

\* url_to_callsign_map[repo_clone_url] = callsign
\* (mutation: the map is assigned a one-entry dict)
MapSetReplacesMap(m, k, v) == [x \in {k} |-> v]
\* (mutation: the assignment of line 211 is left out)
MapSetForgotten(m, k, v) == m
MapSet(m, k, v) == [x \in DOMAIN m \cup {k} |-> IF x = k THEN v ELSE m[x]]

\* One call of add_repository.  accepted: whether phabricator accepts the
\* create call, if one is made (a rejection raises phabricator.APIError).
\* The result holds the exception raised ("none" when it returned), the
\* map as the call leaves it, and the line printed and the create call
\* issued (each a sequence of length 0 or 1).
add_repository(repo_clone_url, m, opts, accepted) ==
    LET rec == RepoRecord(repo_clone_url)
        alloc == _create_new_phabricator_callsign(rec.name,
                                                  ExistingCallsigns(m))
        line == [kind |-> "add", url |-> repo_clone_url,
                 name |-> rec.name, callsign |-> alloc.callsign,
                 vcs |-> rec.vcs_type]
        call == [name |-> rec.name, vcs |-> rec.vcs_type,
                 callsign |-> alloc.callsign, uri |-> repo_clone_url,
                 tracking |-> TRUE, pullFrequency |-> 60,
                 localPath |-> <<rec.vcs_type, rec.name>>,
                 accepted |-> accepted]
    IN  IF rec.exc # "none"
        THEN [exc |-> rec.exc, map |-> m, out |-> <<>>, calls |-> <<>>]
        ELSE IF alloc.exc # "none"
        THEN [exc |-> alloc.exc, map |-> m, out |-> <<>>, calls |-> <<>>]
        ELSE IF CallsCreate(opts.dry_run) /\ ~accepted
        THEN [exc |-> "APIError", map |-> m, out |-> <<line>>,
              calls |-> <<call>>]
        ELSE [exc |-> "none",
              map |-> MapSet(m, repo_clone_url, alloc.callsign),
              out |-> <<line>>,
              calls |-> IF CallsCreate(opts.dry_run) THEN <<call>> ELSE <<>>]

\* delete_repository: the line it prints (it calls nothing).
delete_repository(repo_clone_url, m) ==
    [kind |-> "delete", url |-> repo_clone_url, name |-> <<>>,
     callsign |-> m[repo_clone_url], vcs |-> "none"]

---------------------------------------------------------------------------
(* sorted() *)

\* Orders in which iterating a python set may yield its elements (any
\* order is possible; two are tried): some order and its reverse.
RECURSIVE SomeOrder(_)
SomeOrder(S) ==
    IF S = {} THEN <<>>
    ELSE LET x == CHOOSE y \in S : TRUE
         IN  <<x>> \o SomeOrder(S \ {x})
Enumerations(S) ==
    LET l == SomeOrder(S)
    IN  {l, [k \in 1..Len(l) |-> l[Len(l) + 1 - k]]}

\* sorted(iterable): the elements in the order the iterable yields them,
\* rearranged smallest first (each element is put behind the ones that
\* are not greater, among those before it).
\* (mutation: sorted(..., reverse=True))
RECURSIVE SortedDescending(_)
SortedDescending(l) ==
    IF l = <<>> THEN <<>>
    ELSE LET s == SortedDescending(SubSeq(l, 1, Len(l) - 1))
             x == l[Len(l)]
             k == Cardinality({i \in 1..Len(s) : ~StrLess(s[i], x)})
         IN  SubSeq(s, 1, k) \o <<x>> \o SubSeq(s, k + 1, Len(s))
\* (mutation: the loop walks the set as it comes, without sorted())
Unsorted(l) == l
RECURSIVE sorted(_)
sorted(l) ==
    IF l = <<>> THEN <<>>
    ELSE LET s == sorted(SubSeq(l, 1, Len(l) - 1))
             x == l[Len(l)]
             k == Cardinality({i \in 1..Len(s) : ~StrLess(x, s[i])})
         IN  SubSeq(s, 1, k) \o <<x>> \o SubSeq(s, k + 1, Len(s))

---------------------------------------------------------------------------
(* What the outside world can answer in one pass *)

MaxKiln == 1      \* clone-urls kiln reports
MaxGit == 2       \* clone-urls github reports
MaxTracked == 2   \* repositories phabricator has registered

Git(name) == GIT_PREFIX \o name
Kiln(name) == KILN_PREFIX \o name

\* clone_url values github may report (some end in '.git').
GitUniverse ==
    { Git(<<"f", "a", "r", ".", "g", "i", "t">>),
      Git(<<"f", "o", "o">>),
      Git(<<"f", "o", "o", "-", "g", "r", "o", "u", "p">>),
      Git(<<"g", "r", "o", "u", "p">>),
      Git(<<"1", "2">>),
      <<"h", "t", "t", "p", "s", ":", "/", "/", "g", "i", "t", "h", "u", "b", ".", "c", "o", "m", "/", "k", "h", "a", "n", "/", "x">> }

\* cloneUrl values kiln may report.
KilnUniverse ==
    { Kiln(<<"a", "/", "G", "r", "o", "u", "p", "/", "b">>),
      Git(<<"f", "o", "o">>) }

\* (remoteURI, callsign) records phabricator may hold.
TrackedUniverse ==
    { [remoteURI |-> Git(<<"o", "l", "d">>), callsign |-> <<"F">>],
      [remoteURI |-> Git(<<"o", "l", "d">>), callsign |-> <<"F", "A">>],
      [remoteURI |-> Git(<<"f", "o", "o", "-", "g", "r", "o", "u", "p">>),
       callsign |-> <<"F">>] }

SubsetsUpTo(S, n) == {T \in SUBSET S : Cardinality(T) <= n}
\* The lists of at most n different elements of S.
ListsUpTo(S, n) ==
    {l \in UNION {[1..k -> S] : k \in 0..n} :
        \A i, j \in 1..Len(l) : i # j => l[i] # l[j]}

---------------------------------------------------------------------------
(* __main__, _retry, _get_repos_to_add_and_delete, main *)

\* The --dry_run flag as parser.parse_args leaves it.  (--verbose, which
\* --dry_run switches on, only adds progress lines to stdout.)
ParseOptions(dry_run) == [dry_run |-> dry_run]

\* times=3 in the call of _retry
Times == 3

\* exceptions=(socket.timeout,) in the call of _retry
RetriedExceptions == {"socket.timeout"}

\* One iteration of the loop of _retry: what it does when cmd() raised
\* `raised` ("none": cmd() returned) in iteration i.
\* (mutation: i == times, one attempt too many)
_retryOneMore(i, times, raised) ==
    IF raised = "none" THEN "return"
    ELSE IF raised \notin RetriedExceptions THEN "raise"
    ELSE IF i = times THEN "raise"
    ELSE "again"
\* (mutation: no raise after the last attempt; the loop falls through and
\* the caller goes on as if the call had returned)
_retrySwallows(i, times, raised) ==
    IF raised = "none" THEN "return"
    ELSE IF raised \notin RetriedExceptions THEN "raise"
    ELSE IF i + 1 = times THEN "return"
    ELSE "again"
_retry(i, times, raised) ==
    IF raised = "none" THEN "return"
    ELSE IF raised \notin RetriedExceptions THEN "raise"
    ELSE IF i + 1 = times THEN "raise"
    ELSE "again"

\* git_repos: each clone_url with a trailing '.git' cut off
GitRepos(git_repo_info) == {StripGit(u) : u \in git_repo_info}

\* set(r['remoteURI'] for r in phabricator_repo_info)
PhabricatorRepos(info) == {info[i].remoteURI : i \in 1..Len(info)}

\* dict((r['remoteURI'], r['callsign']) for r in phabricator_repo_info):
\* a later record of the same remoteURI replaces an earlier one.
RepoToCallsignMap(info) ==
    [u \in PhabricatorRepos(info) |->
        LET last == CHOOSE i \in 1..Len(info) :
                        /\ info[i].remoteURI = u
                        /\ \A j \in (i + 1)..Len(info) : info[j].remoteURI # u
        IN  info[last].callsign]

\* actual_repos, new_repos, deleted_repos
\* (mutation: the github set is left out)
ActualReposKilnOnly(kiln, git) == kiln
ActualRepos(kiln, git) == kiln \cup git
\* (mutation: the tracked clone-urls are not subtracted)
NewReposAll(actual, tracked) == actual
NewRepos(actual, tracked) == actual \ tracked
\* (mutation: the operands of the difference are exchanged)
DeletedReposSwapped(actual, tracked) == actual \ tracked
DeletedRepos(actual, tracked) == tracked \ actual

\* except (phabricator.APIError, NameError) in the add loop of main
CaughtInAddLoop == {"APIError", "NameError"}

NoException == [type |-> "none", at |-> "none"]

\* An uncaught exception ends the process with status 1.
Abort(e) ==
    /\ pc' = "aborted"
    /\ exc' = [type |-> e, at |-> pc]
    /\ status' = 1

\* Where main() goes next, given how far the two loops are.
After(adds, i, deletes, j) ==
    IF i < Len(adds) THEN "add"
    ELSE IF j < Len(deletes) THEN "delete"
    ELSE "return"

PassInit ==
    /\ pc = "kiln"
    /\ options \in {ParseOptions(n) : n \in BOOLEAN}
    /\ registry \in ListsUpTo(TrackedUniverse, MaxTracked)
    /\ kiln_repos = {}
    /\ git_repos = {}
    /\ retry_i = 0
    /\ query_log = <<>>
    /\ phabricator_repo_info = <<>>
    /\ url_to_callsign_map = <<>>
    /\ new_repos = {}
    /\ deleted_repos = {}
    /\ add_list = <<>>
    /\ add_i = 0
    /\ delete_list = <<>>
    /\ delete_i = 0
    /\ num_failures = 0
    /\ creates = <<>>
    /\ stdout = <<>>
    /\ stderr = <<>>
    /\ exc = NoException
    /\ status = -1

PassIdle ==
    /\ pc = "idle"
    /\ options = ParseOptions(FALSE)
    /\ registry = <<>>
    /\ kiln_repos = {}
    /\ git_repos = {}
    /\ retry_i = 0
    /\ query_log = <<>>
    /\ phabricator_repo_info = <<>>
    /\ url_to_callsign_map = <<>>
    /\ new_repos = {}
    /\ deleted_repos = {}
    /\ add_list = <<>>
    /\ add_i = 0
    /\ delete_list = <<>>
    /\ delete_i = 0
    /\ num_failures = 0
    /\ creates = <<>>
    /\ stdout = <<>>
    /\ stderr = <<>>
    /\ exc = NoException
    /\ status = -1

AllocIdle ==
    /\ a_pc = "idle"
    /\ a_name = <<>>
    /\ a_existing = {}
    /\ a_result = Raised("none")

\* _find_kilnauth_token and kiln_local_backup.get_repos
GetKilnRepos ==
    /\ pc = "kiln"
    /\ \/ \E e \in {"KeyError", "IOError"} :
            /\ Abort(e)
            /\ UNCHANGED kiln_repos
       \/ \E info \in SubsetsUpTo(KilnUniverse, MaxKiln) :
            /\ kiln_repos' = info
            /\ pc' = "git"
            /\ UNCHANGED <<exc, status>>
    /\ UNCHANGED <<options, registry, git_repos, retry_i, query_log,
                   phabricator_repo_info, url_to_callsign_map, new_repos,
                   deleted_repos, add_list, add_i, delete_list, delete_i,
                   num_failures, creates, stdout, stderr>>
    /\ UNCHANGED <<allocVars, history>>

\* The paged fetch from api.github.com
GetGitRepos ==
    /\ pc = "git"
    /\ \/ /\ Abort("IOError")
          /\ UNCHANGED git_repos
       \/ \E git_repo_info \in SubsetsUpTo(GitUniverse, MaxGit) :
            /\ git_repos' = GitRepos(git_repo_info)
            /\ pc' = "cert"
            /\ UNCHANGED <<exc, status>>
    /\ UNCHANGED <<options, registry, kiln_repos, retry_i, query_log,
                   phabricator_repo_info, url_to_callsign_map, new_repos,
                   deleted_repos, add_list, add_i, delete_list, delete_i,
                   num_failures, creates, stdout, stderr>>
    /\ UNCHANGED <<allocVars, history>>

\* if phabctl.certificate is None: raise KeyError
CheckCertificate ==
    /\ pc = "cert"
    /\ \/ /\ Abort("KeyError")
       \/ /\ pc' = "query"
          /\ UNCHANGED <<exc, status>>
    /\ UNCHANGED <<options, registry, kiln_repos, git_repos, retry_i,
                   query_log, phabricator_repo_info, url_to_callsign_map,
                   new_repos, deleted_repos, add_list, add_i, delete_list,
                   delete_i, num_failures, creates, stdout, stderr>>
    /\ UNCHANGED <<allocVars, history>>

\* One iteration of _retry(phabctl.repository.query, times=3,
\* exceptions=(socket.timeout,)).
QueryAttempt ==
    /\ pc = "query"
    /\ \E raised \in {"none", "socket.timeout", "APIError"} :
        /\ query_log' = Append(query_log, raised)
        /\ LET todo == _retry(retry_i, Times, raised)
           IN  \/ /\ todo = "return"
                  /\ phabricator_repo_info' = registry
                  /\ pc' = "reconcile"
                  /\ UNCHANGED <<retry_i, exc, status>>
               \/ /\ todo = "again"
                  /\ retry_i' = retry_i + 1
                  /\ UNCHANGED <<pc, phabricator_repo_info, exc, status>>
               \/ /\ todo = "raise"
                  /\ Abort(raised)
                  /\ UNCHANGED <<retry_i, phabricator_repo_info>>
    /\ UNCHANGED <<options, registry, kiln_repos, git_repos,
                   url_to_callsign_map, new_repos, deleted_repos, add_list,
                   add_i, delete_list, delete_i, num_failures, creates,
                   stdout, stderr>>
    /\ UNCHANGED <<allocVars, history>>

\* The rest of _get_repos_to_add_and_delete, and main() up to its loops.
\* new_order and deleted_order are the orders in which the two sets yield
\* their elements to sorted().
Reconcile ==
    /\ pc = "reconcile"
    /\ LET phabricator_repos == PhabricatorRepos(phabricator_repo_info)
           actual_repos == ActualRepos(kiln_repos, git_repos)
           new == NewRepos(actual_repos, phabricator_repos)
           deleted == DeletedRepos(actual_repos, phabricator_repos)
       IN  \E new_order \in Enumerations(new),
              deleted_order \in Enumerations(deleted) :
            /\ url_to_callsign_map' = RepoToCallsignMap(phabricator_repo_info)
            /\ new_repos' = new
            /\ deleted_repos' = deleted
            /\ add_list' = sorted(new_order)
            /\ delete_list' = sorted(deleted_order)
            /\ pc' = After(add_list', 0, delete_list', 0)
    /\ UNCHANGED <<options, registry, kiln_repos, git_repos, retry_i,
                   query_log, phabricator_repo_info, add_i, delete_i,
                   num_failures, creates, stdout, stderr, exc, status>>
    /\ UNCHANGED <<allocVars, history>>

\* One iteration of "for repo in sorted(new_repos)", but for what
\* phabricator does with the create call.
AddIteration ==
    /\ pc = "add"
    /\ LET repo == add_list[add_i + 1]
       IN  \E accepted \in BOOLEAN :
            LET r == add_repository(repo, url_to_callsign_map, options,
                                    accepted)
            IN  /\ accepted \/ r.calls # <<>>
                /\ stdout' = stdout \o r.out
                /\ creates' = creates \o r.calls
                /\ url_to_callsign_map' = r.map
                /\ IF r.exc = "none"
                   THEN /\ add_i' = add_i + 1
                        /\ pc' = After(add_list, add_i + 1,
                                       delete_list, delete_i)
                        /\ UNCHANGED <<stderr, num_failures, exc, status>>
                   ELSE IF r.exc \in CaughtInAddLoop
                   THEN /\ stderr' = Append(stderr,
                                        [url |-> repo, why |-> r.exc])
                        /\ num_failures' = num_failures + 1
                        /\ add_i' = add_i + 1
                        /\ pc' = After(add_list, add_i + 1,
                                       delete_list, delete_i)
                        /\ UNCHANGED <<exc, status>>
                   ELSE /\ Abort(r.exc)
                        /\ UNCHANGED <<stderr, num_failures, add_i>>
    /\ UNCHANGED <<options, kiln_repos, git_repos, retry_i,
                   query_log, phabricator_repo_info, new_repos,
                   deleted_repos, add_list, delete_list, delete_i>>
    /\ UNCHANGED <<allocVars, history>>

\* One iteration of the add loop in a pass that does not look at the
\* registry again.
AddStep ==
    /\ AddIteration
    /\ UNCHANGED registry

\* One iteration of "for repo in sorted(deleted_repos)".
DeleteStep ==
    /\ pc = "delete"
    /\ LET repo == delete_list[delete_i + 1]
       IN  IF repo \in DOMAIN url_to_callsign_map
           THEN /\ stdout' = Append(stdout,
                         delete_repository(repo, url_to_callsign_map))
                /\ delete_i' = delete_i + 1
                /\ pc' = After(add_list, add_i, delete_list, delete_i + 1)
                /\ UNCHANGED <<exc, status>>
           ELSE /\ Abort("KeyError")
                /\ UNCHANGED <<stdout, delete_i>>
    /\ UNCHANGED <<options, registry, kiln_repos, git_repos, retry_i,
                   query_log, phabricator_repo_info, url_to_callsign_map,
                   new_repos, deleted_repos, add_list, add_i, delete_list,
                   num_failures, creates, stderr>>
    /\ UNCHANGED <<allocVars, history>>

\* return num_failures; sys.exit(main(...))
Return ==
    /\ pc = "return"
    /\ status' = num_failures
    /\ pc' = "done"
    /\ UNCHANGED <<options, registry, kiln_repos, git_repos, retry_i,
                   query_log, phabricator_repo_info, url_to_callsign_map,
                   new_repos, deleted_repos, add_list, add_i, delete_list,
                   delete_i, num_failures, creates, stdout, stderr, exc>>
    /\ UNCHANGED <<allocVars, history>>

Init == PassInit /\ AllocIdle /\ history = <<>>

Next ==
    \/ GetKilnRepos
    \/ GetGitRepos
    \/ CheckCertificate
    \/ QueryAttempt
    \/ Reconcile
    \/ AddStep
    \/ DeleteStep
    \/ Return

Spec == Init /\ [][Next]_vars

AllocSpecInit == AllocInit /\ PassIdle /\ history = <<>>

SpecAlloc == AllocSpecInit /\ [][AllocNext]_vars

---------------------------------------------------------------------------
(* Vocabulary of the properties *)

\* The pass has computed its add and delete sets.
Reconciled ==
    \/ pc \in {"add", "delete", "return", "done"}
    \/ pc = "aborted" /\ exc.at \in {"add", "delete"}

\* The add loop is over: it ran to its end, or an exception ended it.
AddLoopOver ==
    \/ pc \in {"delete", "return", "done"}
    \/ pc = "aborted" /\ exc.at \in {"add", "delete"}

\* The clone-urls whose add was reported as failed, and those for which a
\* callsign was announced.
FailedUrls == {stderr[i].url : i \in 1..Len(stderr)}
AnnouncedUrls ==
    {stdout[i].url : i \in {j \in 1..Len(stdout) : stdout[j].kind = "add"}}

\* The clone-urls this pass has added to the map.
AddedUrls == new_repos \cap DOMAIN url_to_callsign_map

\* The words of the name of a clone-url with a known prefix.
WordsOf(url) == NameParts(RepoRecord(url).name)

\* The first prefixLen characters of each word, concatenated.
PrefixCandidate(words, prefixLen) ==
    Join([i \in 1..Len(words) |->
             SubSeq(words[i], 1,
                    IF prefixLen < Len(words[i]) THEN prefixLen
                    ELSE Len(words[i]))])

\* The length of the longest word; 0 when there is no word.
LongestWord(words) ==
    IF words = <<>> THEN 0
    ELSE CHOOSE n \in 0..Len(Join(words)) :
            /\ \E i \in 1..Len(words) : Len(words[i]) = n
            /\ \A i \in 1..Len(words) : Len(words[i]) <= n

\* Every candidate callsign of a word list.
CandidatesOf(words) ==
    {PrefixCandidate(words, k) : k \in 1..LongestWord(words)}

\* The prefix length of the callsign a clone-url was added under.
PrefixLenOf(url) ==
    CHOOSE k \in 1..LongestWord(WordsOf(url)) :
        PrefixCandidate(WordsOf(url), k) = url_to_callsign_map[url]

\* No two clone-urls of a map share a callsign.
Injective(m) == \A u, v \in DOMAIN m : u # v => m[u] # m[v]

\* The callsigns a list of registry records holds are pairwise distinct.
DistinctCallsigns(info) ==
    \A i, j \in 1..Len(info) : i # j => info[i].callsign # info[j].callsign

\* The map as it was before the add loop visited position k of add_list,
\* in a pass where every earlier add that reached the map is still there.
MapBefore(k) ==
    LET later == {add_list[j] : j \in k..Len(add_list)}
    IN  [u \in DOMAIN url_to_callsign_map \ later |-> url_to_callsign_map[u]]

---------------------------------------------------------------------------
(* Properties *)

\* C1: failure isolation in the add loop.  Once the add loop is over,
\* every clone-url of new_repos has been attempted (a callsign was
\* announced for it or its failure was reported), every clone-url whose
\* add did not fail is in the map, and num_failures is the number of
\* clone-urls of new_repos whose add failed.
C1_FailureIsolation ==
    AddLoopOver =>
        /\ \A u \in new_repos : u \in FailedUrls \cup AnnouncedUrls
        /\ \A u \in new_repos \ FailedUrls : u \in DOMAIN url_to_callsign_map
        /\ num_failures = Cardinality(new_repos \cap FailedUrls)

\* C2: callsign uniqueness across a pass.  When the callsigns the registry
\* query returned are pairwise distinct, no two clone-urls of the map share
\* a callsign at any step, and every callsign handed to a create call
\* differs from every callsign in the map at the moment of the call.
C2_CallsignsUnique ==
    /\ [](Reconciled /\ DistinctCallsigns(phabricator_repo_info)
              => Injective(url_to_callsign_map))
    /\ [][creates' # creates =>
              creates'[Len(creates')].callsign
                  \notin Range(url_to_callsign_map)]_vars

\* C2 witness: a finished pass over a non-empty registry with distinct
\* callsigns in which two clone-urls with the same words were both created.
C2_Witness ==
    /\ pc = "done"
    /\ Len(phabricator_repo_info) = 2
    /\ DistinctCallsigns(phabricator_repo_info)
    /\ Len(creates) >= 2
    /\ \E u, v \in AddedUrls : u # v /\ WordsOf(u) = WordsOf(v)

\* C3: a name that normalizes to zero words (no word, or only empty
\* words) makes the allocator fail with NameError, the allocation error
\* the add loop records and survives, whatever the existing callsigns.
C3_ZeroWordsFail ==
    (a_pc = "returned"
        /\ \A i \in 1..Len(NameParts(a_name)) : NameParts(a_name)[i] = <<>>)
    => a_result.exc = "NameError"

\* C4: the allocator never returns a callsign that is already in
\* existing_callsigns.
C4_NeverReturnsUsed ==
    (a_pc = "returned" /\ a_result.exc = "none")
    => a_result.callsign \notin a_existing

\* C4 witness: a call that returned although its first candidate was taken.
C4_Witness ==
    /\ a_pc = "returned"
    /\ a_result.exc = "none"
    /\ PrefixCandidate(NameParts(a_name), 1) \in a_existing

\* C5: shortest-prefix allocation.  With maxLen the length of the longest
\* word (none: 0), the allocator returns the candidate of the smallest
\* prefix length in 1..maxLen that is not in existing_callsigns, and fails
\* with NameError exactly when every candidate of 1..maxLen is in it.
C5_ShortestPrefix ==
    a_pc = "returned" =>
        LET words == NameParts(a_name)
            free == {k \in 1..LongestWord(words) :
                        PrefixCandidate(words, k) \notin a_existing}
        IN  IF free = {}
            THEN a_result.exc = "NameError"
            ELSE /\ a_result.exc = "none"
                 /\ \E k \in free :
                        /\ \A j \in free : k <= j
                        /\ a_result.callsign = PrefixCandidate(words, k)

\* C5 on the names that leave at least one word: there the allocator does
\* return the shortest free candidate and fails with NameError otherwise.
ShortestPrefixOnWords ==
    NameParts(a_name) # <<>> => C5_ShortestPrefix

\* C6: every callsign the allocator returns is a non-empty string of the
\* letters A-Z.
C6_UppercaseOnly ==
    (a_pc = "returned" /\ a_result.exc = "none")
    => /\ Len(a_result.callsign) >= 1
       /\ \A i \in 1..Len(a_result.callsign) :
              \E j \in 1..Len(UpperLetters) :
                  a_result.callsign[i] = UpperLetters[j]

\* C6 witness: a callsign returned for a name that holds a lower-case
\* letter, a digit and a separator.
C6_Witness ==
    /\ a_pc = "returned"
    /\ a_result.exc = "none"
    /\ \E i \in 1..Len(a_name) : a_name[i] = "a"
    /\ \E i \in 1..Len(a_name) : a_name[i] = "1"
    /\ \E i \in 1..Len(a_name) : a_name[i] = "-"

\* C7: reconciliation identities.  With A the union of the kiln and the
\* github sets and T the tracked clone-urls, new_repos is A minus T and
\* deleted_repos is T minus A, both are empty when A = T, and the list the
\* add loop walks holds every clone-url of new_repos exactly once.
C7_Reconciliation ==
    Reconciled =>
        LET A == kiln_repos \cup git_repos
            T == {phabricator_repo_info[i].remoteURI :
                     i \in 1..Len(phabricator_repo_info)}
        IN  /\ new_repos = {u \in A : u \notin T}
            /\ deleted_repos = {u \in T : u \notin A}
            /\ A = T => new_repos = {} /\ deleted_repos = {}
            /\ \A u \in new_repos :
                   Cardinality({i \in 1..Len(add_list) : add_list[i] = u}) = 1

\* C7 witness: a reconciled pass in which a clone-url that both sources
\* report is to be added and a tracked one is to be deleted.
C7_Witness ==
    /\ Reconciled
    /\ (kiln_repos \cap git_repos) \cap new_repos # {}
    /\ git_repos \ kiln_repos # {}
    /\ deleted_repos # {}

\* C8: a dry run issues no create call, and still allocates and announces
\* a callsign for every clone-url it has visited whose record and
\* allocation succeed.
C8_DryRunNoCreate ==
    options.dry_run =>
        /\ creates = <<>>
        /\ Reconciled =>
             \A k \in 1..add_i :
                LET u == add_list[k]
                    rec == RepoRecord(u)
                    alloc == _create_new_phabricator_callsign(
                                 rec.name, Range(MapBefore(k)))
                IN  (rec.exc = "none" /\ alloc.exc = "none") =>
                        /\ u \in DOMAIN url_to_callsign_map
                        /\ url_to_callsign_map[u] = alloc.callsign
                        /\ \E i \in 1..Len(stdout) :
                               /\ stdout[i].kind = "add"
                               /\ stdout[i].url = u
                               /\ stdout[i].callsign = alloc.callsign

\* C8 witness: a finished dry run that announced two callsigns.
C8_Witness ==
    /\ options.dry_run
    /\ pc = "done"
    /\ Cardinality(AnnouncedUrls) >= 2

\* C9 as claimed: the add loop walks new_repos in lexicographic order, and
\* of two added clone-urls whose names have a candidate callsign in common
\* the one that sorts first has the shorter prefix length and the other a
\* different callsign.  (Fails already with "F" taken: far gets FA and foo
\* gets FO, equal lengths; with "F" and "FA" taken far gets FAR and foo FO.)
C9_Original ==
    Reconciled =>
        /\ \A i, j \in 1..Len(add_list) :
               i < j => StrLess(add_list[i], add_list[j])
        /\ \A u, v \in AddedUrls :
               (StrLess(u, v)
                   /\ CandidatesOf(WordsOf(u)) \cap CandidatesOf(WordsOf(v))
                          # {})
               => /\ PrefixLenOf(u) < PrefixLenOf(v)
                  /\ url_to_callsign_map[u] # url_to_callsign_map[v]

\* C9 amended: the add loop walks new_repos in lexicographic order; of two
\* added clone-urls whose names have the same words the one that sorts
\* first has the shorter prefix length; and any two clone-urls added in one
\* pass have different callsigns.
C9_SortedOrder ==
    Reconciled =>
        /\ \A i, j \in 1..Len(add_list) :
               i < j => StrLess(add_list[i], add_list[j])
        /\ \A u \in FailedUrls \cup AnnouncedUrls :
               \E k \in 1..Len(add_list) :
                   /\ add_list[k] = u
                   /\ k <= add_i
        /\ \A u, v \in AddedUrls :
               (StrLess(u, v) /\ WordsOf(u) = WordsOf(v))
               => PrefixLenOf(u) < PrefixLenOf(v)
        /\ \A u, v \in AddedUrls :
               u # v => url_to_callsign_map[u] # url_to_callsign_map[v]

\* C9 witness: a finished pass that added two clone-urls with the same
\* words.
C9_Witness ==
    /\ pc = "done"
    /\ \E u, v \in AddedUrls : StrLess(u, v) /\ WordsOf(u) = WordsOf(v)

\* C10: the registry query is attempted at most 3 times; every attempt
\* but the last timed out; a pass that got past the query uses the answer
\* of its last, successful attempt; a failure other than a timeout ends
\* the pass where it occurs; so does the third timeout; and an earlier
\* timeout leaves the pass at the query.
C10_QueryRetry ==
    /\ Len(query_log) <= 3
    /\ \A i \in 1..(Len(query_log) - 1) : query_log[i] = "socket.timeout"
    /\ pc \in {"kiln", "git", "cert"} => query_log = <<>>
    /\ (Reconciled \/ pc = "reconcile") =>
          /\ query_log # <<>>
          /\ query_log[Len(query_log)] = "none"
          /\ phabricator_repo_info = registry
    /\ (query_log # <<>> /\ query_log[Len(query_log)] = "APIError") =>
          /\ pc = "aborted"
          /\ exc = [type |-> "APIError", at |-> "query"]
    /\ (query_log # <<>> /\ query_log[Len(query_log)] = "socket.timeout") =>
          IF Len(query_log) = 3
          THEN /\ pc = "aborted"
               /\ exc = [type |-> "socket.timeout", at |-> "query"]
          ELSE pc = "query"

\* C10 witness: a finished pass whose query succeeded on its third attempt.
C10_Witness ==
    /\ pc = "done"
    /\ query_log = <<"socket.timeout", "socket.timeout", "none">>
    /\ phabricator_repo_info # <<>>

\* C11: no partial application on a fatal failure.  When a fetch of the
\* kiln or github inventory fails, the certificate is missing, or the
\* registry query fails with an error that is not retried or times out on
\* its last attempt, the pass ends with a failure status before the add
\* loop starts: no create call was issued, nothing was announced or
\* reported as deleted, and no add was attempted.  Nothing is created or
\* printed before the add and delete sets are computed.
C11_NoPartialApplication ==
    LET fetchFailed ==
            pc = "aborted" /\ exc.at \in {"kiln", "git", "cert"}
        queryFailed ==
            /\ query_log # <<>>
            /\ \/ query_log[Len(query_log)] = "APIError"
               \/ /\ query_log[Len(query_log)] = "socket.timeout"
                  /\ Len(query_log) = Times
    IN  /\ (fetchFailed \/ queryFailed) =>
              /\ pc = "aborted"
              /\ status > 0
              /\ add_i = 0
              /\ add_list = <<>>
              /\ creates = <<>>
              /\ stdout = <<>>
              /\ stderr = <<>>
        /\ ~Reconciled => creates = <<>> /\ stdout = <<>>

\* C11 witness: the query timed out three times in a pass whose
\* inventories hold a clone-url the registry does not track and whose
\* registry tracks one the inventories do not hold.
C11_Witness ==
    /\ pc = "aborted"
    /\ exc = [type |-> "socket.timeout", at |-> "query"]
    /\ (kiln_repos \cup git_repos) \ PhabricatorRepos(registry) # {}
    /\ PhabricatorRepos(registry) \ (kiln_repos \cup git_repos) # {}

\* C12: the url-to-callsign map changes only in a successful add.  A step
\* outside the add loop (after the map is built) leaves the map as it is;
\* so does an iteration of the add loop that fails (unknown host,
\* allocation failure, rejected create, or an exception that ends the
\* pass); an iteration that succeeds adds exactly one entry, for the
\* clone-url it visited, a new key, with the callsign that the allocator
\* gives for its name against the callsigns of the map, the one it
\* announced and, unless the run is dry, handed to the create call.
C12_MapOnlyBySuccessfulAdds ==
    [][/\ pc \notin {"reconcile", "add"} =>
            url_to_callsign_map' = url_to_callsign_map
       /\ pc = "add" =>
            LET u == add_list[add_i + 1]
                failed == stderr' # stderr \/ pc' = "aborted"
                alloc == _create_new_phabricator_callsign(
                             RepoRecord(u).name,
                             Range(url_to_callsign_map))
            IN  IF failed
                THEN url_to_callsign_map' = url_to_callsign_map
                ELSE /\ u \notin DOMAIN url_to_callsign_map
                     /\ DOMAIN url_to_callsign_map'
                            = DOMAIN url_to_callsign_map \cup {u}
                     /\ \A x \in DOMAIN url_to_callsign_map :
                            url_to_callsign_map'[x] = url_to_callsign_map[x]
                     /\ alloc.exc = "none"
                     /\ url_to_callsign_map'[u] = alloc.callsign
                     /\ stdout'[Len(stdout')].url = u
                     /\ stdout'[Len(stdout')].callsign = alloc.callsign
                     /\ ~options.dry_run =>
                            /\ Len(creates') = Len(creates) + 1
                            /\ creates'[Len(creates')].uri = u
                            /\ creates'[Len(creates')].callsign
                                   = alloc.callsign
                            /\ creates'[Len(creates')].accepted
      ]_vars

\* C12 witness: a finished pass over a non-empty registry in which one add
\* failed for its host or its name, one create was rejected and one add
\* succeeded.
C12_Witness ==
    /\ pc = "done"
    /\ phabricator_repo_info # <<>>
    /\ \E i \in 1..Len(stderr) : stderr[i].why = "NameError"
    /\ \E i \in 1..Len(stderr) : stderr[i].why = "APIError"
    /\ AddedUrls # {}
    /\ Cardinality(DOMAIN url_to_callsign_map)
           = Cardinality(PhabricatorRepos(phabricator_repo_info))
                 + Cardinality(AddedUrls)

\* The positions of stdout that hold a deletion report, and those that
\* announce an add.
DeleteLines == {i \in 1..Len(stdout) : stdout[i].kind = "delete"}
AddLines == {i \in 1..Len(stdout) : stdout[i].kind = "add"}

\* What a pass that has left its loops has reported: one deletion report
\* for every clone-url of deleted_repos, the reports in lexicographic
\* order of clone-url, each after every announced add, and a registry
\* that the reports left as the query found it.
DeletionsReported ==
    /\ \A u \in deleted_repos :
           Cardinality({i \in DeleteLines : stdout[i].url = u}) = 1
    /\ \A i \in DeleteLines : stdout[i].url \in deleted_repos
    /\ \A i, j \in DeleteLines :
           i < j => StrLess(stdout[i].url, stdout[j].url)
    /\ \A i \in AddLines : \A j \in DeleteLines : i < j
    /\ \A u \in deleted_repos :
           /\ u \in DOMAIN url_to_callsign_map
           /\ url_to_callsign_map[u]
                  = RepoToCallsignMap(phabricator_repo_info)[u]

\* C13: deletion is report-only.  A pass that computed its add and delete
\* sets and has ended has emitted one deletion report for every clone-url
\* of deleted_repos, in lexicographic order of clone-url and after all
\* adds, and its create calls are all for clone-urls of new_repos.
C13_DeletionReportOnly ==
    (Reconciled /\ pc \in {"done", "aborted"}) =>
        /\ DeletionsReported
        /\ \A i \in 1..Len(creates) : creates[i].uri \in new_repos

\* C13 on the passes that leave the add loop by its end: there every
\* clone-url of deleted_repos is reported once, in order, after the adds.
DeletionsReportedWhenDone ==
    pc = "done" => DeletionsReported

\* C13, the frame: an iteration of the delete loop prints one line and
\* calls nothing; the map, the create calls and the registry stay.
DeletionFrame ==
    [][pc = "delete" =>
          /\ url_to_callsign_map' = url_to_callsign_map
          /\ creates' = creates
          /\ registry' = registry
          /\ stderr' = stderr
          /\ num_failures' = num_failures
          /\ Len(stdout') = Len(stdout) + 1
          /\ stdout'[Len(stdout')].kind = "delete"
          /\ stdout'[Len(stdout')].url = delete_list[delete_i + 1]]_vars

\* C15: the add set and the delete set are disjoint at every step of the
\* pass: no clone-url is in both new_repos and deleted_repos, none is
\* walked by both loops, and none is both announced as added and reported
\* as deleted.
C15_AddDeleteDisjoint ==
    /\ new_repos \cap deleted_repos = {}
    /\ \A i \in 1..Len(add_list) : \A j \in 1..Len(delete_list) :
           add_list[i] # delete_list[j]
    /\ \A i \in AddLines : \A j \in DeleteLines :
           stdout[i].url # stdout[j].url

\* C15 witness: a finished pass that announced an add and reported a
\* deletion.
C15_Witness ==
    /\ pc = "done"
    /\ new_repos # {}
    /\ deleted_repos # {}
    /\ AddLines # {}
    /\ DeleteLines # {}

\* The words of a name before any noise word is removed, the words that
\* are not noise words, and a word list without the first occurrence of w.
RawWords(name) == Split(StripDigits(Upper(name)))
WithoutNoise(words) == SelectSeq(words, LAMBDA w : w \notin {GROUP, WEBSITE})
RECURSIVE WithoutFirst(_, _)
WithoutFirst(words, w) ==
    IF words = <<>> THEN <<>>
    ELSE IF Head(words) = w THEN Tail(words)
    ELSE <<Head(words)>> \o WithoutFirst(Tail(words), w)
Occurrences(words, w) == Cardinality({i \in 1..Len(words) : words[i] = w})

\* C17: noise-word removal.  No word equal to GROUP or WEBSITE is left in
\* the word list when the candidates are built, and a returned callsign
\* is a candidate of the words of the name that are not noise words, also
\* when the name holds such a word more than once.
C17_NoiseWordsRemoved ==
    a_pc = "returned" =>
        /\ \A i \in 1..Len(NameParts(a_name)) :
               NameParts(a_name)[i] \notin {GROUP, WEBSITE}
        /\ a_result.exc = "none" =>
               a_result.callsign \in CandidatesOf(WithoutNoise(RawWords(a_name)))

\* What the allocator does with noise words: the first GROUP word and the
\* first WEBSITE word of the name are removed before the candidates are
\* built, and a returned callsign is a candidate of the words that are
\* left.  For a name that holds each noise word at most once no noise
\* word contributes to the callsign; a later occurrence of a noise word
\* stays in the word list.
FirstNoiseWordRemoved ==
    a_pc = "returned" =>
        LET raw == RawWords(a_name)
            kept == WithoutFirst(WithoutFirst(raw, GROUP), WEBSITE)
        IN  /\ NameParts(a_name) = kept
            /\ a_result.exc = "none" =>
                   a_result.callsign \in CandidatesOf(kept)
            /\ (Occurrences(raw, GROUP) <= 1
                    /\ Occurrences(raw, WEBSITE) <= 1) =>
                   kept = WithoutNoise(raw)
            /\ \A w \in {GROUP, WEBSITE} :
                   Occurrences(raw, w) >= 2 =>
                       Occurrences(kept, w) = Occurrences(raw, w) - 1

\* A record of the registry answer holds clone-url u with callsign c.
QueryReturned(u, c) ==
    \E k \in 1..Len(phabricator_repo_info) :
        /\ phabricator_repo_info[k].remoteURI = u
        /\ phabricator_repo_info[k].callsign = c

\* C18: every clone-url of deleted_repos is tracked when it is reported.
\* The clone-url the delete loop is about to report is a key of the map
\* and its callsign there is one the registry query returned for it; every
\* deletion report printed so far names such a callsign; and the lookup in
\* delete_repository never fails, whatever the add loop did before.
C18_DeletedUrlsTracked ==
    /\ pc = "delete" =>
          LET u == delete_list[delete_i + 1]
          IN  /\ u \in DOMAIN url_to_callsign_map
              /\ QueryReturned(u, url_to_callsign_map[u])
    /\ \A i \in DeleteLines : QueryReturned(stdout[i].url, stdout[i].callsign)
    /\ ~(pc = "aborted" /\ exc.at = "delete")

\* C18 witness: a finished pass that reported a deletion after one add
\* that succeeded and one that failed.
C18_Witness ==
    /\ pc = "done"
    /\ DeleteLines # {}
    /\ AddedUrls # {}
    /\ stderr # <<>>

\* C19: adds never alter a tracked repository.  Once the map is built,
\* every clone-url the registry query returned is a key of the map with
\* the callsign of its last record in the answer, at every later step; no
\* create call is for such a clone-url, and none is announced as added.
C19_TrackedUntouched ==
    Reconciled =>
        /\ \A u \in PhabricatorRepos(phabricator_repo_info) :
               /\ u \in DOMAIN url_to_callsign_map
               /\ \E k \in 1..Len(phabricator_repo_info) :
                      /\ phabricator_repo_info[k].remoteURI = u
                      /\ phabricator_repo_info[k].callsign
                             = url_to_callsign_map[u]
                      /\ \A j \in (k + 1)..Len(phabricator_repo_info) :
                             phabricator_repo_info[j].remoteURI # u
        /\ \A i \in 1..Len(creates) :
               creates[i].uri \notin PhabricatorRepos(phabricator_repo_info)
        /\ \A i \in AddLines :
               stdout[i].url \notin PhabricatorRepos(phabricator_repo_info)

\* C19 witness: a finished pass that created a repository while an
\* inventory held a clone-url the registry already tracked.
C19_Witness ==
    /\ pc = "done"
    /\ creates # <<>>
    /\ AddedUrls # {}
    /\ PhabricatorRepos(phabricator_repo_info)
           \cap (kiln_repos \cup git_repos) # {}

\* A list holds the clone-urls of a set, each once, smallest first.
IsAscending(l, S) ==
    /\ Len(l) = Cardinality(S)
    /\ \A i \in 1..Len(l) : l[i] \in S
    /\ \A i \in 1..(Len(l) - 1) : StrLess(l[i], l[i + 1])

\* Whether phabricator accepted the create call made for a clone-url (no
\* call made: TRUE).
CreateAccepted(u) ==
    \A i \in 1..Len(creates) : creates[i].uri = u => creates[i].accepted

\* What the add loop makes of its inputs alone (the registry answer, the
\* list of clone-urls to add, the dry_run flag and the outcome of each
\* create call): the map, the create calls and the announcements after the
\* adds k..n, starting from map m, calls made and lines out.
RECURSIVE AddLoopResult(_, _, _, _, _, _)
AddLoopResult(urls, k, n, m, calls, out) ==
    IF k > n THEN [map |-> m, calls |-> calls, out |-> out]
    ELSE LET r == add_repository(urls[k], m, options, CreateAccepted(urls[k]))
         IN  AddLoopResult(urls, k + 1, n, r.map, calls \o r.calls,
                           out \o r.out)

\* C14: reproducibility.  The callsigns a pass assigns are a function of
\* the registry answer, the set new_repos, the dry_run flag and the create
\* outcomes, whatever the order in which the sets yielded their elements:
\* the loops walk new_repos and deleted_repos smallest first, and when the
\* pass has ended after k iterations of the add loop the map is the one
\* that k adds in that order give; the callsigns announced and the create
\* calls made are those of that sequence, in its order.
C14_Reproducible ==
    /\ Reconciled =>
          /\ IsAscending(add_list, new_repos)
          /\ IsAscending(delete_list, deleted_repos)
    /\ (pc \in {"done", "aborted"} /\ Reconciled) =>
          AddLoopResult(add_list, 1, add_i,
                        RepoToCallsignMap(phabricator_repo_info), <<>>, <<>>)
              = [map |-> url_to_callsign_map,
                 calls |-> creates,
                 out |-> SelectSeq(stdout, LAMBDA line : line.kind = "add")]

\* C14 witness: a finished pass that added two clone-urls whose names have
\* a candidate callsign in common and different words, so that the order
\* of the adds decides which of them gets it.
C14_Witness ==
    /\ pc = "done"
    /\ \E u, v \in AddedUrls :
           /\ u # v
           /\ WordsOf(u) # WordsOf(v)
           /\ CandidatesOf(WordsOf(u)) \cap CandidatesOf(WordsOf(v)) # {}
           /\ url_to_callsign_map[u] \in CandidatesOf(WordsOf(v))

---------------------------------------------------------------------------
(* Two passes of the script without --dry_run, one after the other,       *)
(* against a registry that keeps what the first pass created              *)

\* phabricator after create calls: each accepted call is recorded under
\* the uri and the callsign it was made with.
Registered(reg, calls) ==
    LET ok == SelectSeq(calls, LAMBDA c : c.accepted)
    IN  reg \o [i \in 1..Len(ok) |->
                   [remoteURI |-> ok[i].uri, callsign |-> ok[i].callsign]]

\* One iteration of the add loop against such a registry.
AddStepRecorded ==
    /\ AddIteration
    /\ registry' = Registered(registry,
                              SubSeq(creates', Len(creates) + 1,
                                     Len(creates')))

\* What a pass that got to its loops leaves for the next one to be
\* compared with.
PassSummary ==
    [kiln_repos |-> kiln_repos, git_repos |-> git_repos,
     new_repos |-> new_repos, failed |-> FailedUrls, added |-> AddedUrls,
     ended |-> pc]

\* The script is started again after a pass that got to its loops (at
\* most once): a new process, with the registry as the pass left it.
NextPass ==
    /\ history = <<>>
    /\ Reconciled
    /\ pc \in {"done", "aborted"}
    /\ history' = <<PassSummary>>
    /\ pc' = "kiln"
    /\ options' = ParseOptions(FALSE)
    /\ kiln_repos' = {}
    /\ git_repos' = {}
    /\ retry_i' = 0
    /\ query_log' = <<>>
    /\ phabricator_repo_info' = <<>>
    /\ url_to_callsign_map' = <<>>
    /\ new_repos' = {}
    /\ deleted_repos' = {}
    /\ add_list' = <<>>
    /\ add_i' = 0
    /\ delete_list' = <<>>
    /\ delete_i' = 0
    /\ num_failures' = 0
    /\ creates' = <<>>
    /\ stdout' = <<>>
    /\ stderr' = <<>>
    /\ exc' = NoException
    /\ status' = -1
    /\ UNCHANGED registry
    /\ UNCHANGED allocVars

\* The inventories are unchanged: in the second pass kiln and github
\* report what they reported in the first.
GetKilnReposAgain ==
    /\ GetKilnRepos
    /\ (history # <<>> /\ pc' = "git") =>
           kiln_repos' = history[1].kiln_repos
GetGitReposAgain ==
    /\ GetGitRepos
    /\ (history # <<>> /\ pc' = "cert") =>
           git_repos' = history[1].git_repos

TwoPassNext ==
    \/ GetKilnReposAgain
    \/ GetGitReposAgain
    \/ CheckCertificate
    \/ QueryAttempt
    \/ Reconcile
    \/ AddStepRecorded
    \/ DeleteStep
    \/ Return
    \/ NextPass

TwoPassInit == Init /\ options = ParseOptions(FALSE)

SpecTwoPass == TwoPassInit /\ [][TwoPassNext]_vars

\* C16: idempotent recomputation.  With a registry that records every
\* created repository under the uri it was created with and inventories
\* that do not change, a second pass (not a dry run) that has computed its
\* sets after a first pass (not a dry run) in which every add succeeded
\* has an empty new_repos and has made no create call; a clone-url whose
\* add failed in the first pass is in new_repos again; in general the
\* second new_repos is the first without the clone-urls the first pass
\* created, and only those are created in the second pass.
C16_Idempotent ==
    (history # <<>> /\ Reconciled) =>
        LET first == history[1]
        IN  /\ (first.ended = "done" /\ first.failed = {}) =>
                   new_repos = {} /\ creates = <<>>
            /\ \A u \in first.failed : u \in new_repos
            /\ new_repos = first.new_repos \ first.added
            /\ \A i \in 1..Len(creates) :
                   creates[i].uri \in first.new_repos \ first.added

\* C16 witness: a second pass, not a dry run, that ended after a first
\* pass, not a dry run either, in which two adds were made and both
\* succeeded.
C16_Witness ==
    /\ history # <<>>
    /\ pc = "done"
    /\ ~options.dry_run
    /\ history[1].ended = "done"
    /\ history[1].failed = {}
    /\ Cardinality(history[1].added) >= 2
    /\ Len(registry) >= 3

============================================================================
